---- MODULE Spec2Model ----
(***************************************************************************)
(* The local-first synchronisation engine of docs/features/local_first.md: *)
(* the SQLite (local) and Supabase (remote) task repositories, the         *)
(* TaskService orchestrator, the SQLite sync queue and the SyncService     *)
(* daemon.                                                                 *)
(*                                                                         *)
(* JavaScript runs each async function on one thread; the claims settled   *)
(* here are about one call at a time, so one action is one call of a       *)
(* handler from its first statement to its return or throw.  The local     *)
(* SQLite medium is taken to be reliable ("applied to the local            *)
(* Repository (always succeeds fast)"); every remote call may fail.        *)
(***************************************************************************)
EXTENDS Integers, Sequences, FiniteSets, TLC

\* ------------------------------------------------------------------ bounds

\* generateId() / the server's default id: ids handed out so far are 1..nextId-1
MaxIds == 3
\* the clock reads 4 at Init and advances by one at every call that stamps a row
MaxClock == 8
\* rows of sync_queue
MaxQueue == 2
\* SyncConfig.maxRetries
maxRetries == 2
\* processQueue runs that can be waiting for the remote at one time
MaxDrains == 2
\* updateTask calls that can be waiting for the remote at one time
MaxCalls == 2

\* names this device's callers give a task
Names == {"A", "B"}
\* the name another device gives it
OtherName == "R"

\* ------------------------------------------------------------ domain model

\* a field a partial record (TaskCreate, TaskUpdate, SyncOperation.data) lacks
NoName == "-"
NoStatus == "none"
NoVersion == 0
NoTime == 0
NoId == 0

SyncStatus == {"synced", "pending", "conflict", "error"}

\* Task, without the fields no handler reads (description, alarm_*, user_id)
Task(name, deleted, version, status, updated_at) ==
  [name |-> name, deleted |-> deleted, version |-> version,
   status |-> status, updated_at |-> updated_at]

\* a possibly partial object: TaskCreate, TaskUpdate or a whole Task
\* del is "absent" (no deleted_at key), "null" or "set" (a timestamp)
Payload(id, name, del, version, status, updated_at) ==
  [id |-> id, name |-> name, del |-> del, version |-> version,
   status |-> status, updated_at |-> updated_at]

\* TaskCreate: Omit<Task, id | created_at | updated_at | version | sync_status>
TaskCreate(name) == Payload(NoId, name, "null", NoVersion, NoStatus, NoTime)

\* a stored Task read back as an object, its id included
AsObject(id, t) ==
  Payload(id, t.name, IF t.deleted THEN "set" ELSE "null", t.version,
          t.status, t.updated_at)

Put(store, id, rec) ==
  [x \in (DOMAIN store) \cup {id} |-> IF x = id THEN rec ELSE store[x]]

Drop(store, id) == [x \in (DOMAIN store) \ {id} |-> store[x]]

\* ------------------------------------------------------------------- state

VARIABLES
  local,     \* SQLite tasks table: id -> Task
  remote,    \* Supabase tasks table: id -> Task
  queue,     \* sync_queue rows, a set of SyncOperation
  nextId,    \* the next id generateId() or the server hands out
  nextOp,    \* the next sync_queue row id
  now,       \* the clock
  config,    \* TaskServiceConfig of the TaskService in use
  isRunning, \* SyncService.isRunning
  ret,       \* how the last TaskService call ended: what it returned or threw
  made,      \* id -> name, for every task a createTask call returned; NoName
             \* once an edit or a sweep has rewritten the row
  drains,    \* the processQueue runs that wait for their remote call
  calls      \* the immediate-sync updateTask calls that wait for a remote call

\* made, once the rows of ids have been rewritten by an edit or a sweep
Edited(m, ids) == [x \in DOMAIN m |-> IF x \in ids THEN NoName ELSE m[x]]

\* the calls in flight: empty wherever each handler runs as one step
async == <<drains, calls>>

vars == <<local, remote, queue, nextId, nextOp, now, config, isRunning, ret, made,
          drains, calls>>

NoRet == [op |-> "none", id |-> NoId, err |-> "none", cause |-> "none",
          task |-> Payload(NoId, NoName, "absent", NoVersion, NoStatus, NoTime)]

Returned(op, id, task) ==
  [op |-> op, id |-> id, err |-> "none", cause |-> "none", task |-> task]

\* a TransactionError built without its cause
Threw_NoCause(op, id, err, cause) ==
  [op |-> op, id |-> id, err |-> err, cause |-> "none", task |-> NoRet.task]

Threw(op, id, err, cause) ==
  [op |-> op, id |-> id, err |-> err, cause |-> cause, task |-> NoRet.task]

EmptyStore == [x \in {} |-> 0]

\* no operation: what dequeue returns on an empty queue
NoOp ==
  [id |-> 0, type |-> "none", taskId |-> NoId,
   data |-> Payload(NoId, NoName, "absent", NoVersion, NoStatus, NoTime),
   previousVersion |-> NoVersion, retryCount |-> 0, createdAt |-> NoTime]

\* a processQueue run that is not under way
IdleDrain == [pc |-> "idle", op |-> NoOp]

\* an updateTask call that is not under way
IdleCall ==
  [pc |-> "idle", op |-> "none", id |-> NoId,
   originalTask |-> Task(NoName, FALSE, NoVersion, NoStatus, NoTime),
   updatedTask |-> Payload(NoId, NoName, "absent", NoVersion, NoStatus, NoTime)]

\* TaskServiceConfig: sync disabled, immediate sync (syncOnWrite), queued sync
Configs ==
  {[enableSync |-> FALSE, syncOnWrite |-> FALSE],
   [enableSync |-> TRUE, syncOnWrite |-> TRUE],
   [enableSync |-> TRUE, syncOnWrite |-> FALSE]}

\* The tables are durable: a session starts on what earlier sessions left.
\* Seeded is such a state, reached from empty tables by createTask("A") with
\* sync disabled (local row 1, version 1, PENDING, stamped 1), a forced
\* fullSync (row 1 is local only and PENDING: CREATE queued with the whole
\* row as data, stamped 2) and one processQueue run (remote insert under the
\* same id, stamped 3; markSynced(1, 1)): one task on both sides under one
\* id, version 1, SYNCED, the queue empty.
SeededLocal == Put(EmptyStore, 1, Task("A", FALSE, 1, "synced", 1))
SeededRemote == Put(EmptyStore, 1, Task("A", FALSE, 1, "synced", 3))

Init ==
  /\ \/ /\ local = EmptyStore
        /\ remote = EmptyStore
        /\ nextId = 1
        /\ nextOp = 1
     \/ /\ local = SeededLocal
        /\ remote = SeededRemote
        /\ nextId = 2
        /\ nextOp = 2
  /\ queue = {}
  /\ now = 4
  /\ config \in Configs
  /\ isRunning = FALSE
  /\ ret = NoRet
  /\ made = EmptyStore
  /\ drains = [s \in 1..MaxDrains |-> IdleDrain]
  /\ calls = [c \in 1..MaxCalls |-> IdleCall]

\* ------------------------------------------------- SQLiteTaskRepository

\* an INSERT whose parameter list leaves the name out
SQLiteCreate_NoName(store, id, task, t) ==
  Put(store, id, Task(NoName, FALSE, 1, "pending", t))

\* create: a fresh id, version 1, PENDING; deleted_at is not in the INSERT
SQLiteCreate(store, id, task, t) ==
  Put(store, id, Task(task.name, FALSE, 1, "pending", t))

\* update: merges the changes into the stored row; updated_at is refreshed
\* unless the changes carry one
RepoUpdate(store, id, changes, t) ==
  LET old == store[id] IN
  [store EXCEPT ![id] =
     Task(IF changes.name = NoName THEN old.name ELSE changes.name,
          IF changes.del = "absent" THEN old.deleted ELSE changes.del = "set",
          IF changes.version = NoVersion THEN old.version ELSE changes.version,
          IF changes.status = NoStatus THEN old.status ELSE changes.status,
          IF changes.updated_at = NoTime THEN t ELSE changes.updated_at)]

\* delete: physical removal
RepoDelete(store, id) == Drop(store, id)

\* markSynced: synced only if the stored version still equals the given one
MarkSynced(store, id, version) ==
  IF id \in DOMAIN store /\ store[id].version = version
  THEN [store EXCEPT ![id].status = "synced"]
  ELSE store

\* markError
MarkError(store, id) ==
  IF id \in DOMAIN store THEN [store EXCEPT ![id].status = "error"] ELSE store

\* getAll: the active rows
GetAll(store) == {id \in DOMAIN store : ~store[id].deleted}

\* ----------------------------------------------- SupabaseTaskRepository

\* the id of the inserted row: the object's own, or the column default
InsertedId(task, fresh) == IF task.id = NoId THEN fresh ELSE task.id

\* the insert is refused when the primary key is taken
SupabaseCreateOk(store, task) == task.id = NoId \/ task.id \notin DOMAIN store

\* create: inserts the object as given, with version 1 and SYNCED
SupabaseCreate(store, task, fresh, t) ==
  Put(store, InsertedId(task, fresh),
      Task(task.name, task.del = "set", 1, "synced", t))

\* ------------------------------------------------------------ TaskService

\* syncCreateToRemote strips id, created_at, updated_at, version, sync_status
StripForCreate(task) ==
  Payload(NoId, task.name, task.del, NoVersion, NoStatus, NoTime)

\* an enqueue that stores no previous_version
Enqueue_NoPrevious(q, type, taskId, data, previousVersion, id, t) ==
  q \cup {[id |-> id, type |-> type, taskId |-> taskId, data |-> data,
           previousVersion |-> NoVersion, retryCount |-> 0,
           createdAt |-> t]}

\* SQLiteSyncQueue.enqueue
Enqueue(q, type, taskId, data, previousVersion, id, t) ==
  q \cup {[id |-> id, type |-> type, taskId |-> taskId, data |-> data,
           previousVersion |-> previousVersion, retryCount |-> 0,
           createdAt |-> t]}

\* a catch block that rethrows without deleting the row it had inserted
RollbackCreate_Skip(store, id) == store

\* the rollback of createTask: localRepo.delete(localTask.id)
RollbackCreate(store, id) == RepoDelete(store, id)

\* A call that rolls back leaves no id and no timestamp behind: the id it
\* generated and the clock readings it took are in no row, so the counters
\* stay where they were and the next call is as fresh as this one was.
CreateTask(name, netOk) ==
  /\ nextId <= MaxIds
  /\ LET id == nextId
         taskData == TaskCreate(name)
         local1 == SQLiteCreate(local, id, taskData, now)
         localTask == AsObject(id, local1[id])
     IN
     IF config.enableSync /\ config.syncOnWrite
     THEN
       IF netOk
       THEN \* syncCreateToRemote: remote create, then markSynced
         /\ nextId + 1 <= MaxIds
         /\ now < MaxClock
         /\ remote' = SupabaseCreate(remote, StripForCreate(localTask), id + 1, now)
         /\ local' = MarkSynced(local1, id, localTask.version)
         /\ nextId' = id + 2
         /\ now' = now + 1
         /\ ret' = Returned("createTask", id, localTask)
         /\ made' = Put(made, id, name)
         /\ UNCHANGED <<queue, nextOp>>
       ELSE \* rollback
         /\ local' = RollbackCreate(local1, id)
         /\ ret' = Threw("createTask", id, "TransactionError", "RemoteError")
         /\ UNCHANGED <<remote, queue, nextId, nextOp, now, made>>
     ELSE \* no remote call is made: netOk is not read
       /\ now < MaxClock
       /\ local' = local1
       /\ nextId' = id + 1
       /\ now' = now + 1
       /\ ret' = Returned("createTask", id, localTask)
       /\ made' = Put(made, id, name)
       /\ IF config.enableSync
          THEN /\ Cardinality(queue) < MaxQueue
               /\ queue' = Enqueue(queue, "CREATE", id, taskData, NoVersion, nextOp, now)
               /\ nextOp' = nextOp + 1
          ELSE UNCHANGED <<queue, nextOp>>
       /\ UNCHANGED remote
  /\ UNCHANGED <<config, isRunning>>

\* a first write that forgets to bump the version
LocalWrite_NoBump(updates, originalVersion) ==
  Payload(NoId, updates.name, updates.del, originalVersion, "pending", NoTime)

\* the object updateTask writes first: the caller's changes, version+1, PENDING
LocalWrite(updates, originalVersion) ==
  Payload(NoId, updates.name, updates.del, originalVersion + 1, "pending", NoTime)

\* syncUpdateToRemote without its version comparison
SyncUpdateOutcome_NoCheck(id, previousVersion, netOk) ==
  IF ~netOk THEN "RemoteError"
  ELSE IF id \notin DOMAIN remote THEN "NotFoundError"
  ELSE "none"

\* what the remote read and write of syncUpdateToRemote end in
SyncUpdateOutcome(id, previousVersion, netOk) ==
  IF ~netOk THEN "RemoteError"
  ELSE IF id \in DOMAIN remote /\ remote[id].version # previousVersion
       THEN "ConflictError"
  ELSE IF id \notin DOMAIN remote THEN "NotFoundError"
  ELSE "none"

\* a catch block that throws without writing the original state back
Rollback_Skip(store, id, originalTask, t) == store

\* the rollback write of updateTask: {...originalTask, version: originalTask.version}
Rollback(store, id, originalTask, t) ==
  RepoUpdate(store, id, AsObject(id, originalTask), t)

\* a missing row that is passed over: the call resolves to nothing
MissingTask_Ignored(op, id) == Returned(op, id, NoRet.task)

\* getById found no row: throw new NotFoundError
MissingTask(op, id) == Threw(op, id, "NotFoundError", "none")

UpdateTaskCall(op, id, updates, netOk) ==
  IF id \notin DOMAIN local
  THEN /\ ret' = MissingTask(op, id)
       /\ UNCHANGED <<local, remote, queue, nextId, nextOp, now, made>>
  ELSE
    /\ LET originalTask == local[id]
           local1 == RepoUpdate(local, id, LocalWrite(updates, originalTask.version), now)
           updatedTask == AsObject(id, local1[id])
           outcome == SyncUpdateOutcome(id, originalTask.version, netOk)
       IN
       IF config.enableSync /\ config.syncOnWrite
       THEN
         IF outcome = "none"
         THEN /\ now < MaxClock
              /\ remote' = RepoUpdate(remote, id, updatedTask, now)
              /\ local' = MarkSynced(local1, id, updatedTask.version)
              /\ now' = now + 1
              /\ ret' = Returned(op, id, updatedTask)
              /\ made' = Edited(made, {id})
              /\ UNCHANGED <<queue, nextOp>>
         ELSE /\ local' = Rollback(local1, id, originalTask, now)
              /\ ret' = Threw(op, id, "TransactionError", outcome)
              /\ UNCHANGED <<remote, queue, nextOp, now, made>>
       ELSE
         /\ now < MaxClock
         /\ local' = local1
         /\ now' = now + 1
         /\ ret' = Returned(op, id, updatedTask)
         /\ made' = Edited(made, {id})
         /\ IF config.enableSync
            THEN /\ Cardinality(queue) < MaxQueue
                 /\ queue' = Enqueue(queue, "UPDATE", id, updates,
                                     originalTask.version, nextOp, now)
                 /\ nextOp' = nextOp + 1
            ELSE UNCHANGED <<queue, nextOp>>
         /\ UNCHANGED remote
    /\ UNCHANGED nextId

\* a caller's TaskUpdate: a new name
Rename(name) == Payload(NoId, name, "absent", NoVersion, NoStatus, NoTime)

UpdateTask(id, name, netOk) ==
  /\ UpdateTaskCall("updateTask", id, Rename(name), netOk)
  /\ UNCHANGED <<config, isRunning>>

\* a deleteTask that leaves deleted_at out of its update
SoftDelete_NoStamp == Payload(NoId, NoName, "absent", NoVersion, "pending", NoTime)

\* deleteTask: updateTask(id, {deleted_at: now, sync_status: PENDING})
SoftDelete == Payload(NoId, NoName, "set", NoVersion, "pending", NoTime)

DeleteTask(id, netOk) ==
  /\ UpdateTaskCall("deleteTask", id, SoftDelete, netOk)
  /\ UNCHANGED <<config, isRunning>>

\* another device running the same service pushes its edit of a task:
\* its syncUpdateToRemote writes the task at the next version
OtherDevice(id) ==
  /\ id \in DOMAIN remote
  /\ now < MaxClock
  /\ remote' = RepoUpdate(remote, id,
                 Payload(NoId, OtherName, "absent", remote[id].version + 1, "pending", NoTime),
                 now)
  /\ now' = now + 1
  /\ UNCHANGED <<local, queue, nextId, nextOp, config, isRunning, ret, made>>

\* ------------------------------------------------------------ SyncService

Start ==
  /\ ~isRunning
  /\ isRunning' = TRUE
  /\ UNCHANGED <<local, remote, queue, nextId, nextOp, now, config, ret, made>>

Stop ==
  /\ isRunning
  /\ isRunning' = FALSE
  /\ UNCHANGED <<local, remote, queue, nextId, nextOp, now, config, ret, made>>

\* a dequeue that orders by created_at DESC
Dequeue_Newest(q) ==
  CHOOSE o \in q : \A p \in q :
    o.createdAt > p.createdAt \/ (o.createdAt = p.createdAt /\ o.id >= p.id)

\* SQLiteSyncQueue.dequeue: ORDER BY created_at ASC LIMIT 1; rows stamped in the
\* same millisecond come back in rowid order, the order they were inserted in
Dequeue(q) ==
  CHOOSE o \in q : \A p \in q :
    o.createdAt < p.createdAt \/ (o.createdAt = p.createdAt /\ o.id <= p.id)

\* retry: retryCount + 1, the row stays
Retry(q, op) == (q \ {op}) \cup {[op EXCEPT !.retryCount = op.retryCount + 1]}

\* remove
Remove(q, op) == q \ {op}

\* how the remote call of executeOperation ends
ExecuteOutcome(op, netOk) ==
  IF ~netOk THEN "RemoteError"
  ELSE CASE op.type = "CREATE" ->
              IF SupabaseCreateOk(remote, op.data) THEN "none" ELSE "DuplicateKey"
         [] op.type = "UPDATE" ->
              IF op.taskId \in DOMAIN remote THEN "none" ELSE "NotFoundError"
         [] OTHER -> "none"

\* the remote table after the remote call of executeOperation
ExecuteRemote(op, fresh, t) ==
  CASE op.type = "CREATE" -> SupabaseCreate(remote, op.data, fresh, t)
    [] op.type = "UPDATE" -> RepoUpdate(remote, op.taskId, op.data, t)
    [] OTHER -> RepoDelete(remote, op.taskId)

\* one run of processQueue: one operation
ProcessQueue(netOk) ==
  /\ isRunning
  /\ queue # {}
  /\ LET op == Dequeue(queue)
         outcome == ExecuteOutcome(op, netOk)
         insertsFresh == op.type = "CREATE" /\ op.data.id = NoId
     IN
     IF outcome = "none"
     THEN /\ now < MaxClock
          /\ insertsFresh => nextId <= MaxIds
          /\ remote' = ExecuteRemote(op, nextId, now)
          /\ local' = MarkSynced(local, op.taskId, op.data.version)
          /\ queue' = Remove(queue, op)
          /\ nextId' = IF insertsFresh THEN nextId + 1 ELSE nextId
          /\ now' = now + 1
     ELSE IF op.retryCount < maxRetries
     THEN /\ queue' = Retry(queue, op)
          /\ UNCHANGED <<local, remote, nextId, now>>
     ELSE /\ local' = MarkError(local, op.taskId)
          /\ UNCHANGED <<remote, queue, nextId, now>>
  /\ UNCHANGED <<nextOp, config, isRunning, ret, made>>

\* position of id in a getAll result cut down to S: newest first
Rank(S, id) == Cardinality({x \in S : x > id})

\* mergeChanges, first loop: remote tasks not in local
RemoteOnly == GetAll(remote) \ GetAll(local)

\* a second loop without its sync_status test
LocalOnlyPending_AnyStatus == GetAll(local) \ GetAll(remote)

\* second loop: local tasks not in remote, PENDING
LocalOnlyPending ==
  {id \in GetAll(local) \ GetAll(remote) : local[id].status = "pending"}

\* third loop: on both sides with different versions
Conflicts ==
  {id \in GetAll(local) \cap GetAll(remote) : local[id].version # remote[id].version}

\* a comparison that takes the earlier updated_at for the newer side
RemoteNewer_Earlier(id) == remote[id].updated_at < local[id].updated_at

RemoteNewer(id) == remote[id].updated_at > local[id].updated_at

\* the local table after the first and third loops
MergedLocal(t) ==
  [x \in (DOMAIN local) \cup {nextId + Rank(RemoteOnly, r) : r \in RemoteOnly} |->
     IF x \in DOMAIN local
     THEN IF x \in Conflicts /\ RemoteNewer(x)
          THEN RepoUpdate(local, x, AsObject(x, remote[x]), t)[x]
          ELSE local[x]
     ELSE LET r == CHOOSE r \in RemoteOnly : nextId + Rank(RemoteOnly, r) = x
          IN SQLiteCreate(local, x, AsObject(r, remote[r]), t)[x]]

LocalNewer == {id \in Conflicts : ~RemoteNewer(id)}

\* a third loop that takes the local version for previousVersion
MergedQueue_LocalVersion(t) ==
  queue
  \cup {[id |-> nextOp + Rank(LocalOnlyPending, x), type |-> "CREATE", taskId |-> x,
         data |-> AsObject(x, local[x]), previousVersion |-> NoVersion,
         retryCount |-> 0, createdAt |-> t] : x \in LocalOnlyPending}
  \cup {[id |-> nextOp + Cardinality(LocalOnlyPending) + Rank(LocalNewer, x),
         type |-> "UPDATE", taskId |-> x, data |-> AsObject(x, local[x]),
         previousVersion |-> local[x].version,
         retryCount |-> 0, createdAt |-> t] : x \in LocalNewer}

\* the rows the second and third loops add to the queue
MergedQueue(t) ==
  queue
  \cup {[id |-> nextOp + Rank(LocalOnlyPending, x), type |-> "CREATE", taskId |-> x,
         data |-> AsObject(x, local[x]), previousVersion |-> NoVersion,
         retryCount |-> 0, createdAt |-> t] : x \in LocalOnlyPending}
  \cup {[id |-> nextOp + Cardinality(LocalOnlyPending) + Rank(LocalNewer, x),
         type |-> "UPDATE", taskId |-> x, data |-> AsObject(x, local[x]),
         previousVersion |-> remote[x].version,
         retryCount |-> 0, createdAt |-> t] : x \in LocalNewer}

FullSync(netOk) ==
  /\ IF ~netOk \* remoteRepo.getAll throws: nothing was written
     THEN UNCHANGED <<local, queue, nextId, nextOp, now, made>>
     ELSE LET stamps == Cardinality(RemoteOnly) + Cardinality(LocalOnlyPending)
                          + Cardinality(LocalNewer)
          IN
          /\ stamps > 0 => now < MaxClock
          /\ nextId + Cardinality(RemoteOnly) <= MaxIds + 1
          /\ Cardinality(MergedQueue(now)) <= MaxQueue
          /\ local' = MergedLocal(now)
          /\ queue' = MergedQueue(now)
          /\ nextId' = nextId + Cardinality(RemoteOnly)
          /\ nextOp' = nextOp + Cardinality(LocalOnlyPending) + Cardinality(LocalNewer)
          /\ now' = IF stamps > 0 THEN now + 1 ELSE now
          /\ made' = Edited(made, {y \in Conflicts : RemoteNewer(y)})
  /\ UNCHANGED <<remote, config, isRunning, ret>>

\* ids a caller may pass: every stored task's, and one id of no local row (the
\* orchestrator treats all of those alike)
CallerIds ==
  (DOMAIN local)
  \cup {CHOOSE x \in 1..(MaxIds + 1) :
          x \notin DOMAIN local /\ \A y \in 1..(x - 1) : y \in DOMAIN local}

\* every call runs from its first statement to its end before the next starts
Next ==
  \/ \E name \in Names, netOk \in BOOLEAN :
       CreateTask(name, netOk) /\ UNCHANGED async
  \/ \E id \in CallerIds, name \in Names, netOk \in BOOLEAN :
       UpdateTask(id, name, netOk) /\ UNCHANGED async
  \/ \E id \in CallerIds, netOk \in BOOLEAN :
       DeleteTask(id, netOk) /\ UNCHANGED async
  \/ \E id \in DOMAIN remote : OtherDevice(id) /\ UNCHANGED async
  \/ Start /\ UNCHANGED async
  \/ Stop /\ UNCHANGED async
  \/ \E netOk \in BOOLEAN : ProcessQueue(netOk) /\ UNCHANGED async
  \/ \E netOk \in BOOLEAN : FullSync(netOk) /\ UNCHANGED async

Spec == Init /\ [][Next]_vars

\* ---------------------------------------------------------------------
\* The same handlers, one step per await on the remote: a run or a call
\* that waits for the remote lets other callbacks run.
\* ---------------------------------------------------------------------

\* ------------------------------------------- SyncService, step by step

\* retry(id) and remove(id) act on the row that has the id now
RetryById(q, id) ==
  IF \E o \in q : o.id = id THEN Retry(q, CHOOSE o \in q : o.id = id) ELSE q

RemoveById(q, id) ==
  IF \E o \in q : o.id = id THEN Remove(q, CHOOSE o \in q : o.id = id) ELSE q

\* the slot a new run takes: runs are interchangeable
FreeDrain(s) ==
  /\ drains[s].pc = "idle"
  /\ \A r \in 1..(s - 1) : drains[r].pc # "idle"

\* a dequeue that deletes the row it returns
BeginDrain_Pops(s) ==
  /\ isRunning
  /\ FreeDrain(s)
  /\ queue # {}
  /\ drains' = [drains EXCEPT ![s] = [pc |-> "applying", op |-> Dequeue(queue)]]
  /\ queue' = Remove(queue, Dequeue(queue))
  /\ UNCHANGED <<local, remote, nextId, nextOp, now, config, isRunning, ret, made,
                 calls>>

\* a processQueue without the isRunning guard
BeginDrain_Unguarded(s) ==
  /\ FreeDrain(s)
  /\ queue # {}
  /\ drains' = [drains EXCEPT ![s] =
                  [pc |-> "applying", op |-> Dequeue(queue)]]
  /\ UNCHANGED <<local, remote, queue, nextId, nextOp, now, config, isRunning,
                 ret, made, calls>>

\* a timer tick, a connectivity event or the loop's own setTimeout calls
\* processQueue: up to the remote call of executeOperation
BeginDrain(s) ==
  /\ isRunning
  /\ FreeDrain(s)
  /\ queue # {}
  /\ drains' = [drains EXCEPT ![s] =
                  [pc |-> "applying", op |-> Dequeue(queue)]]
  /\ UNCHANGED <<local, remote, queue, nextId, nextOp, now, config, isRunning,
                 ret, made, calls>>

\* the local calls of a run that can throw inside the try block
TryFailures == {"none", "markSynced", "remove"}

\* the remote call of the run in slot s ends and processQueue runs to its
\* end. tryFails: the local call of the try block that throws; catchFails:
\* retry / markError throws in the catch block, which nothing catches: the
\* run ends in a rejected promise before it has written anything more.
EndDrain(s, netOk, tryFails, catchFails) ==
  /\ drains[s].pc = "applying"
  /\ LET op == drains[s].op
         applied == ExecuteOutcome(op, netOk) = "none"
         insertsFresh == op.type = "CREATE" /\ op.data.id = NoId
         caught == ~applied \/ tryFails # "none"
         marked == IF applied /\ tryFails # "markSynced"
                   THEN MarkSynced(local, op.taskId, op.data.version)
                   ELSE local
     IN
     /\ applied => (now < MaxClock /\ (insertsFresh => nextId <= MaxIds))
     /\ remote' = IF applied THEN ExecuteRemote(op, nextId, now) ELSE remote
     /\ nextId' = IF applied /\ insertsFresh THEN nextId + 1 ELSE nextId
     /\ now' = IF applied THEN now + 1 ELSE now
     /\ IF ~caught
        THEN /\ local' = marked
             /\ queue' = RemoveById(queue, op.id)
        ELSE IF catchFails
        THEN /\ local' = marked
             /\ queue' = queue
        ELSE IF op.retryCount < maxRetries
        THEN /\ local' = marked
             /\ queue' = RetryById(queue, op.id)
        ELSE /\ local' = MarkError(marked, op.taskId)
             /\ queue' = queue
     /\ drains' = [drains EXCEPT ![s] = IdleDrain]
  /\ UNCHANGED <<nextOp, config, isRunning, ret, made, calls>>

\* -------------------------------------------- TaskService, step by step

\* the slot a new call takes: calls are interchangeable
FreeCall(c) ==
  /\ calls[c].pc = "idle"
  /\ \A r \in 1..(c - 1) : calls[r].pc # "idle"

\* updateTask with syncOnWrite, up to the remote read of syncUpdateToRemote
BeginCall(c, op, id, updates) ==
  /\ config.enableSync /\ config.syncOnWrite
  /\ FreeCall(c)
  /\ IF id \notin DOMAIN local
     THEN /\ ret' = Threw(op, id, "NotFoundError", "none")
          /\ UNCHANGED <<local, now, made, calls>>
     ELSE /\ now < MaxClock
          /\ local' = RepoUpdate(local, id, LocalWrite(updates, local[id].version), now)
          /\ now' = now + 1
          /\ made' = Edited(made, {id})
          /\ calls' = [calls EXCEPT ![c] =
                         [pc |-> "reading", op |-> op, id |-> id,
                          originalTask |-> local[id],
                          updatedTask |-> AsObject(id, local'[id])]]
          /\ UNCHANGED ret
  /\ UNCHANGED <<remote, queue, nextId, nextOp, config, isRunning, drains>>

\* the catch block of updateTask: the snapshot is written back and the
\* call throws
FailCall(c, cause) ==
  /\ local' = Rollback(local, calls[c].id, calls[c].originalTask, now)
  /\ ret' = Threw(calls[c].op, calls[c].id, "TransactionError", cause)
  /\ calls' = [calls EXCEPT ![c] = IdleCall]
  /\ UNCHANGED remote

\* remoteRepo.getById answers: the version comparison, then the remote
\* write is sent
ReadCall(c, netOk) ==
  /\ calls[c].pc = "reading"
  /\ LET id == calls[c].id IN
     IF ~netOk
     THEN FailCall(c, "RemoteError")
     ELSE IF id \in DOMAIN remote
             /\ remote[id].version # calls[c].originalTask.version
     THEN FailCall(c, "ConflictError")
     ELSE /\ calls' = [calls EXCEPT ![c].pc = "writing"]
          /\ UNCHANGED <<local, remote, ret>>
  /\ UNCHANGED <<queue, nextId, nextOp, now, config, isRunning, made, drains>>

\* remoteRepo.update answers: markSynced and return, or the catch block
EndCall(c, netOk) ==
  /\ calls[c].pc = "writing"
  /\ LET id == calls[c].id
         task == calls[c].updatedTask
     IN
     IF ~netOk
     THEN FailCall(c, "RemoteError")
     ELSE IF id \notin DOMAIN remote
     THEN FailCall(c, "NotFoundError")
     ELSE /\ remote' = RepoUpdate(remote, id, task, now)
          /\ local' = MarkSynced(local, id, task.version)
          /\ ret' = Returned(calls[c].op, id, task)
          /\ calls' = [calls EXCEPT ![c] = IdleCall]
  /\ UNCHANGED <<queue, nextId, nextOp, now, config, isRunning, made, drains>>

\* With syncOnWrite the calls of the orchestrator wait for the remote and
\* interleave; without it they are local, and the runs of the daemon are
\* what waits and interleaves.
AsyncNext ==
  \/ \E name \in Names, netOk \in BOOLEAN :
       CreateTask(name, netOk) /\ UNCHANGED async
  \/ \E id \in CallerIds, name \in Names :
       ~config.syncOnWrite /\ UpdateTask(id, name, TRUE) /\ UNCHANGED async
  \/ \E c \in 1..MaxCalls, id \in CallerIds, name \in Names :
       BeginCall(c, "updateTask", id, Rename(name))
  \/ \E c \in 1..MaxCalls, netOk \in BOOLEAN : ReadCall(c, netOk)
  \/ \E c \in 1..MaxCalls, netOk \in BOOLEAN : EndCall(c, netOk)
  \/ \E id \in DOMAIN remote : OtherDevice(id) /\ UNCHANGED async
  \/ Start /\ UNCHANGED async
  \/ \E netOk \in BOOLEAN : FullSync(netOk) /\ UNCHANGED async
  \/ \E netOk \in BOOLEAN :
       config.syncOnWrite /\ ProcessQueue(netOk) /\ UNCHANGED async
  \/ \E s \in 1..MaxDrains : ~config.syncOnWrite /\ BeginDrain(s)
  \/ \E s \in 1..MaxDrains, netOk \in BOOLEAN, tryFails \in TryFailures,
        catchFails \in BOOLEAN : EndDrain(s, netOk, tryFails, catchFails)

\* the sync paths are those of a service with sync enabled
AsyncInit == Init /\ config.enableSync

AsyncSpec == AsyncInit /\ [][AsyncNext]_vars

\* ---------------------------------------------------------------------
\* Properties
\* ---------------------------------------------------------------------

\* the two sync modes of TaskServiceConfig
Immediate == config.enableSync /\ config.syncOnWrite
Queued == config.enableSync /\ ~config.syncOnWrite

\* the fields of a row a caller set or reads back, without its time stamp
View(t) == [name |-> t.name, deleted |-> t.deleted, version |-> t.version,
            status |-> t.status]

\* C1: a createTask call in immediate mode whose remote create fails
\* throws a TransactionError that carries the remote failure as its cause,
\* leaves no row under the id it had generated, and leaves the local store
\* exactly as it was before the call.
C1_CreateRollback ==
  [][\A name \in Names :
       (Immediate /\ CreateTask(name, FALSE)) =>
         /\ ret'.op = "createTask"
         /\ ret'.err = "TransactionError"
         /\ ret'.cause = "RemoteError"
         /\ ret'.id \notin DOMAIN local'
         /\ local' = local]_vars

\* a failed immediate create has just returned, with other rows in the store
C1_Witness ==
  /\ Immediate
  /\ ret.op = "createTask"
  /\ ret.err = "TransactionError"
  /\ ret.id \notin DOMAIN local
  /\ local # EmptyStore

\* the local copy is at N and in sync, the remote one was moved to N+1
StaleLocal(id) ==
  /\ id \in DOMAIN local
  /\ id \in DOMAIN remote
  /\ local[id].status = "synced"
  /\ remote[id].version = local[id].version + 1

\* C2 as stated: an immediate updateTask from a stale local copy fails with
\* ConflictError, leaves the remote record as the other device wrote it and
\* leaves the local record equal to its snapshot from before the call.
C2_FailsWithConflictError ==
  [][\A id \in DOMAIN local : \A name \in Names :
       (Immediate /\ StaleLocal(id) /\ UpdateTask(id, name, TRUE)) =>
         /\ ret'.err = "ConflictError"
         /\ remote' = remote
         /\ View(local'[id]) = View(local[id])]_vars

\* C2, amended: the same call fails with a TransactionError whose cause is
\* the ConflictError; the remote record is not overwritten and the local
\* record has the version and field values of its snapshot from before.
C2_ConflictRollback ==
  [][\A id \in DOMAIN local : \A name \in Names :
       (Immediate /\ StaleLocal(id) /\ UpdateTask(id, name, TRUE)) =>
         /\ ret'.err = "TransactionError"
         /\ ret'.cause = "ConflictError"
         /\ remote' = remote
         /\ id \in DOMAIN local'
         /\ View(local'[id]) = View(local[id])]_vars

\* an immediate update has just been refused for a conflict: the remote row
\* is still one version ahead and carries the other device's name
C2_Witness ==
  /\ Immediate
  /\ ret.op = "updateTask"
  /\ ret.err = "TransactionError"
  /\ ret.cause = "ConflictError"
  /\ StaleLocal(ret.id)
  /\ remote[ret.id].name = OtherName

\* C3 as stated: a failed attempt on an operation that has already been
\* retried maxRetries times removes the operation from the queue and
\* leaves its task, if it is in the local store, with status 'error'.
C3_ExhaustedOpRemoved ==
  [][(queue # {} /\ Dequeue(queue).retryCount >= maxRetries
        /\ ProcessQueue(FALSE)) =>
       /\ Dequeue(queue).id \notin {p.id : p \in queue'}
       /\ Dequeue(queue).taskId \in DOMAIN local =>
            local'[Dequeue(queue).taskId].status = "error"]_vars

\* o was enqueued no later than p
Before(o, p) ==
  o.createdAt < p.createdAt \/ (o.createdAt = p.createdAt /\ o.id <= p.id)

OpIds(q) == {o.id : o \in q}

C5_OfflineCreateThenDrain ==
  [][/\ \A name \in Names : \A netOk \in BOOLEAN :
          (Queued /\ CreateTask(name, netOk)) =>
            /\ nextId \in DOMAIN local'
            /\ local'[nextId].status = "pending"
            /\ Cardinality({o \in queue' : o.taskId = nextId}) = 1
     /\ \A o \in queue :
          ( /\ Queued
            /\ queue = {o}
            /\ o.type = "CREATE"
            /\ o.data.id = NoId
            /\ o.taskId \in DOMAIN local
            /\ local[o.taskId].status = "pending"
            /\ ProcessQueue(TRUE) ) =>
            /\ queue' = {}
            /\ local'[o.taskId].status = "synced"]_vars

\* C6 as stated: when a createTask in immediate mode returns with the
\* remote healthy, the remote store holds a record under the id of the
\* returned task, with the name the caller gave and version 1.
C6_RemoteHasSameId ==
  [][\A name \in Names :
       (Immediate /\ CreateTask(name, TRUE)) =>
         /\ ret'.err = "none"
         /\ ret'.id \in DOMAIN remote'
         /\ remote'[ret'.id].name = name
         /\ remote'[ret'.id].version = 1]_vars

\* C7 as stated: when a createTask in immediate mode returns with the
\* remote healthy, the task handed back to the caller has sync_status
\* 'synced', and so has the stored local record.
C7_ReturnedTaskSynced ==
  [][\A name \in Names :
       (Immediate /\ CreateTask(name, TRUE)) =>
         /\ ret'.err = "none"
         /\ ret'.task.status = "synced"
         /\ local'[ret'.id].status = "synced"]_vars

\* C8: a task that a successful createTask returned stays in the local store
\* under the returned id, in every sync mode and whatever the remote calls,
\* the drain runs and the sweeps that follow end in; and until the user
\* edits or deletes it or a sweep merges a newer remote copy into it, it
\* has the name the caller gave, version 1 and no deletion mark.
C8_LocalWriteDurable ==
  \A id \in DOMAIN made :
    /\ id \in DOMAIN local
    /\ made[id] # NoName =>
         /\ local[id].name = made[id]
         /\ local[id].version = 1
         /\ ~local[id].deleted

\* a task created in queued mode whose operation has failed past its last
\* retry is still in the local store as created
C8_Witness ==
  /\ Queued
  /\ \E id \in DOMAIN made :
       /\ made[id] # NoName
       /\ id \in DOMAIN local
       /\ local[id].status = "error"
       /\ \E o \in queue : o.taskId = id /\ o.retryCount = maxRetries

\* C9: an updateTask or deleteTask call that succeeds leaves the stored
\* local version exactly 1 above the version stored before the call.
C9_VersionPlusOne ==
  [][\A id \in DOMAIN local : \A netOk \in BOOLEAN :
       ( /\ \/ \E name \in Names : UpdateTask(id, name, netOk)
            \/ DeleteTask(id, netOk)
         /\ ret'.err = "none" ) =>
         /\ id \in DOMAIN local'
         /\ local'[id].version = local[id].version + 1]_vars

\* the second successful update or delete of one task has just returned
C9_Witness ==
  /\ ret.op \in {"updateTask", "deleteTask"}
  /\ ret.err = "none"
  /\ ret.id \in DOMAIN local
  /\ local[ret.id].version = 3
  /\ ret.task.version = 3

\* C10 as stated: no step replaces the version stored for an id, in the
\* local store or in the remote store, by a smaller one.
C10_VersionNeverDecreases ==
  [][/\ \A id \in DOMAIN local \cap DOMAIN local' :
          local'[id].version >= local[id].version
     /\ \A id \in DOMAIN remote \cap DOMAIN remote' :
          remote'[id].version >= remote[id].version]_vars

\* the run in slot s ends in this step / the call in slot c ends in this step
DrainEnds(s) == drains[s].pc = "applying" /\ drains'[s].pc = "idle"
CallEnds(c) == calls[c].pc = "writing" /\ calls'[c].pc = "idle"

\* the step turns the local row of id 'synced'
TurnsSynced(id) ==
  /\ id \in DOMAIN local /\ id \in DOMAIN local'
  /\ local[id].status # "synced"
  /\ local'[id].status = "synced"

\* the stored row is the row the sync pushed: no local edit stands on top
SameRow(t, pushed) ==
  /\ t.name = pushed.name
  /\ t.deleted = (pushed.del = "set")
  /\ t.version = pushed.version

\* C11 as stated: the step that ends a successful sync, immediate or queued,
\* and so calls markSynced, turns the local row 'synced' only if the stored
\* version is the version the sync was given; and so a row that has been
\* rewritten since the sync started, and is no longer the row the sync
\* pushed, is left as it is, not turned 'synced'.
C11_MarkSyncedOnlyAtVersion ==
  [][/\ \A s \in 1..MaxDrains :
          LET id == drains[s].op.taskId
              data == drains[s].op.data
          IN
          (DrainEnds(s) /\ TurnsSynced(id)) =>
            /\ local[id].version = data.version
            /\ SameRow(local[id], data)
     /\ \A c \in 1..MaxCalls :
          LET id == calls[c].id
              task == calls[c].updatedTask
          IN
          (CallEnds(c) /\ ret'.err = "none" /\ TurnsSynced(id)) =>
            /\ local[id].version = task.version
            /\ SameRow(local[id], task)]_vars

\* the runs that are waiting for their remote call
Applying == {s \in 1..MaxDrains : drains[s].pc = "applying"}

\* C12 as stated: at most one queued operation is being applied to the
\* remote store at any moment; a trigger that fires while a run is under
\* way does not start a second one.
C12_NoOverlappingDrains == Cardinality(Applying) <= 1

\* ---------------------------------------------------------------------
\* The daemon with its drains scheduled fairly: while the daemon is started
\* the interval timer of start() and the setTimeout at the end of
\* processQueue keep calling processQueue, and the remote is reachable.
FairSpec == Spec /\ WF_vars(ProcessQueue(TRUE) /\ UNCHANGED async)

\* the remote refuses the operation although it is reachable
Refused(o) == ExecuteOutcome(o, TRUE) # "none"

\* operation p waits behind a head the remote refuses, would itself be
\* accepted, and the daemon is started
BehindBadHead(p) ==
  /\ isRunning
  /\ \E o \in queue : /\ o.id = p
                      /\ o # Dequeue(queue)
                      /\ ~Refused(o)
  /\ Refused(Dequeue(queue))

\* C13 as stated: one bad operation cannot halt the drain. While the daemon
\* is started and drains are scheduled fairly, an operation that waits
\* behind a head the remote refuses on every attempt, and that the remote
\* would accept, eventually leaves the queue (unless the daemon is stopped,
\* the head stops being refused or the operation stops being acceptable).
C13_BadHeadDoesNotHaltDrain ==
  \A p \in 1..MaxClock :
    BehindBadHead(p) ~> (p \notin OpIds(queue) \/ ~BehindBadHead(p))

\* retry_count of the sync_queue row id in q
RetryCountOf(q, id) == (CHOOSE o \in q : o.id = id).retryCount

\* C14 as stated: the drain loop never fails out of its own scheduling.
\* Whenever a processQueue run ends on a failure (its operation is still in
\* the queue), whichever of the remote call, markSynced, remove, retry or
\* markError failed, the run ended in a retry of that operation (its
\* retry_count went up) or in its task's sync_status being 'error'.
C14_FailureEndsInRetryOrError ==
  [][\A s \in 1..MaxDrains :
       LET op == drains[s].op IN
       (DrainEnds(s) /\ op.id \in OpIds(queue) /\ op.id \in OpIds(queue')) =>
         \/ RetryCountOf(queue', op.id) > RetryCountOf(queue, op.id)
         \/ /\ op.taskId \in DOMAIN local'
            /\ local'[op.taskId].status = "error"]_vars

DrainBegins(s) == drains[s].pc = "idle" /\ drains'[s].pc = "applying"

\* C15: at-least-once delivery. dequeue never removes: a processQueue run
\* that starts takes an operation of the queue and leaves the queue as it
\* is. And an operation leaves the queue only in a step in which the remote
\* accepted it and the remote table took its effect; no operation leaves
\* the queue un-applied.
C15_AtLeastOnce ==
  [][/\ \A s \in 1..MaxDrains :
          DrainBegins(s) => (queue' = queue /\ drains'[s].op \in queue)
     /\ \A o \in queue :
          o.id \notin OpIds(queue') =>
            /\ ExecuteOutcome(o, TRUE) = "none"
            /\ remote' = ExecuteRemote(o, nextId, now)]_vars

\* two operations were enqueued, dequeued and applied run by run, and both
\* have left the queue
C15_Witness ==
  /\ Queued
  /\ nextOp >= 3
  /\ queue = {}
  /\ \A s \in 1..MaxDrains : drains[s].pc = "idle"
  /\ Cardinality(DOMAIN remote) >= 2

\* C16: the sweep resolves a conflicting edit in favour of the later side.
\* When a task is on both sides (in both getAll results) with different
\* versions and the remote row's updated_at is the later one, a fullSync
\* that reads the remote overwrites the local row with the remote row's
\* fields and version, and puts no operation for that task in the queue.
C16_SweepTakesLaterRemote ==
  [][\A id \in GetAll(local) \cap GetAll(remote) :
       (/\ FullSync(TRUE)
        /\ local[id].version # remote[id].version
        /\ remote[id].updated_at > local[id].updated_at) =>
         /\ local'[id].name = remote[id].name
         /\ local'[id].deleted = remote[id].deleted
         /\ local'[id].version = remote[id].version
         /\ local'[id].updated_at = remote[id].updated_at
         /\ \A o \in queue' \ queue : o.taskId # id]_vars

\* local version 2 met version 3 of another device and the sweep took it:
\* a local row of version 3 carries the other device's name, only the
\* sweep writes it there
C16_Witness ==
  \E id \in DOMAIN local \cap DOMAIN remote :
    /\ local[id].name = OtherName
    /\ local[id].version = 3
    /\ View(local[id]) = View(remote[id])
    /\ local[id].updated_at = remote[id].updated_at
    /\ \A o \in queue : o.taskId # id

RemoteStepFails(id, netOk) ==
  \/ ~netOk
  \/ id \notin DOMAIN remote
  \/ remote[id].version # local[id].version

\* C18: no silent failure in syncOnWrite mode. With sync enabled and
\* syncOnWrite, a createTask whose remote create fails, and an updateTask
\* or deleteTask whose remote read or write fails or finds no remote row
\* (or a changed one), throws TransactionError and leaves the local and the
\* remote table as they were before the call; and a call that returns
\* normally has written to the remote.
C18_NoSilentFailure ==
  [][Immediate =>
       /\ \A name \in Names :
            CreateTask(name, FALSE) =>
              (ret'.err = "TransactionError" /\ local' = local /\ remote' = remote)
       /\ \A id \in DOMAIN local, name \in Names, netOk \in BOOLEAN :
            ((UpdateTask(id, name, netOk) \/ DeleteTask(id, netOk))
              /\ RemoteStepFails(id, netOk)) =>
              (ret'.err = "TransactionError" /\ local' = local /\ remote' = remote)
       /\ \A id \in CallerIds, name \in Names, netOk \in BOOLEAN :
            ((CreateTask(name, netOk) \/ UpdateTask(id, name, netOk)
               \/ DeleteTask(id, netOk)) /\ ret'.err = "none") =>
              remote' # remote]_vars

\* an immediate deleteTask found no remote row under its id, threw, and
\* the local row is back without deleted_at
C18_Witness ==
  /\ Immediate
  /\ ret.op = "deleteTask"
  /\ ret.err = "TransactionError"
  /\ ret.cause = "NotFoundError"
  /\ ret.id \in GetAll(local)

\* the calls whose remoteRepo.update for task id is outstanding
Writing(id) == {c \in 1..MaxCalls : calls[c].pc = "writing" /\ calls[c].id = id}

\* C19 as stated: in immediate-sync mode at most one remote write per task
\* id is in flight at a time, however concurrent calls interleave.
C19_OneWriteInFlight ==
  \A id \in 1..(MaxIds + 1) : Cardinality(Writing(id)) <= 1

\* C20 as stated: a forced full sync re-surfaces a task whose operation
\* ran out of retries. In every state where a task's sync_status is 'error'
\* and it has no row in the remote table, the rows a fullSync that reads
\* the remote adds to the queue include an operation for that task.
C20_FullSyncResurfacesError ==
  \A id \in GetAll(local) :
    (local[id].status = "error" /\ id \notin DOMAIN remote) =>
      \E o \in MergedQueue(now) \ queue : o.taskId = id

\* the row of id is SYNCED after the step and was not before it
BecomesSynced(id) ==
  /\ id \in DOMAIN local'
  /\ local'[id].status = "synced"
  /\ (id \in DOMAIN local => local[id].status # "synced")

\* C21 as stated: synced means converged. No createTask, updateTask,
\* deleteTask, processQueue run or fullSync marks a task SYNCED while the
\* remote table lacks a row under its id or holds another version, name or
\* deleted_at there.
C21_SyncedMeansConverged ==
  [][\A id \in 1..(MaxIds + 1) :
       BecomesSynced(id) =>
         /\ id \in DOMAIN remote'
         /\ remote'[id].version = local'[id].version
         /\ remote'[id].name = local'[id].name
         /\ remote'[id].deleted = local'[id].deleted]_vars

\* C22 as stated: fullSync never undoes a local soft delete. When a task
\* has a local row with deleted_at set and the remote still holds it as
\* active, a fullSync that reads the remote leaves deleted_at set and
\* creates no local row for it: the rows it creates are no more than the
\* active remote tasks without any local row.
C22_SweepKeepsSoftDelete ==
  [][\A id \in (DOMAIN local) \cap GetAll(remote) :
       (FullSync(TRUE) /\ local[id].deleted) =>
         /\ local'[id].deleted
         /\ id \notin GetAll(local')
         /\ Cardinality((DOMAIN local') \ (DOMAIN local))
              <= Cardinality(GetAll(remote) \ (DOMAIN local))]_vars

\* call c ends in this step by throwing
CallFails(c) ==
  /\ calls[c].pc # "idle"
  /\ calls'[c].pc = "idle"
  /\ ret'.err # "none"

\* the last call to return was a successful updateTask of id, and the local
\* row still is what that call wrote
HoldsReturnedEdit(id) ==
  /\ ret.op = "updateTask"
  /\ ret.err = "none"
  /\ ret.id = id
  /\ id \in DOMAIN local
  /\ local[id].name = ret.task.name
  /\ local[id].version = ret.task.version

\* C23 as stated: a rollback does not erase another caller's edit. When an
\* updateTask call fails its immediate sync and rolls back while the local
\* row holds the change of another updateTask call on the same id that
\* returned successfully, that change is still in the local row afterwards.
C23_RollbackKeepsOtherEdit ==
  [][\A c \in 1..MaxCalls :
       (CallFails(c) /\ HoldsReturnedEdit(calls[c].id)) =>
         /\ local'[calls[c].id].name = ret.task.name
         /\ local'[calls[c].id].version = ret.task.version]_vars

\* C24 as stated: a queued UPDATE never overwrites another device's newer
\* remote edit. When a processQueue run applies an UPDATE whose
\* previousVersion is not the version the remote row has now, the remote
\* row is left as it is.
C24_QueuedUpdateChecksVersion ==
  [][\A netOk \in BOOLEAN :
       (/\ ProcessQueue(netOk)
        /\ Dequeue(queue).type = "UPDATE"
        /\ Dequeue(queue).taskId \in DOMAIN remote
        /\ remote[Dequeue(queue).taskId].version # Dequeue(queue).previousVersion) =>
         remote' = remote]_vars

\* the error the remote read, the version comparison or the remote write of
\* an immediate update of id ends in
OriginalCause(id, netOk) ==
  IF ~netOk THEN "RemoteError"
  ELSE IF id \notin DOMAIN remote THEN "NotFoundError"
  ELSE "ConflictError"

\* C25: update rollback on remote failure. With sync enabled and
\* syncOnWrite, an updateTask or deleteTask whose remote read or write
\* fails (remote unreachable, remote version changed, no remote row)
\* throws TransactionError carrying that cause, leaves the local row equal
\* to the snapshot taken before the update in version, sync_status,
\* deleted_at and name, and leaves the queue unchanged.
C25_UpdateRollback ==
  [][Immediate =>
       \A id \in DOMAIN local, name \in Names, netOk \in BOOLEAN :
         ((UpdateTask(id, name, netOk) \/ DeleteTask(id, netOk))
           /\ RemoteStepFails(id, netOk)) =>
           /\ ret'.err = "TransactionError"
           /\ ret'.cause = OriginalCause(id, netOk)
           /\ ret'.id = id
           /\ local'[id].version = local[id].version
           /\ local'[id].status = local[id].status
           /\ local'[id].deleted = local[id].deleted
           /\ local'[id].name = local[id].name
           /\ queue' = queue]_vars

\* an immediate deleteTask of a task that is SYNCED at version 1 found the
\* remote unreachable and threw; the row is SYNCED at version 1, not deleted
C25_Witness ==
  /\ Immediate
  /\ ret.op = "deleteTask"
  /\ ret.err = "TransactionError"
  /\ ret.cause = "RemoteError"
  /\ ret.id \in DOMAIN local
  /\ local[ret.id].status = "synced"
  /\ local[ret.id].version = 1
  /\ ~local[ret.id].deleted
  /\ queue = {}

\* C26 as stated: fullSync is idempotent. Right after a fullSync that read
\* the remote, a second fullSync would create no local row, rewrite no
\* local row and add no row to the queue.
C26_FullSyncIdempotent ==
  [][FullSync(TRUE) =>
       /\ (MergedLocal(now))' = local'
       /\ (MergedQueue(now))' = queue']_vars

\* C27 as stated: no orphaned pending record in queued mode. With sync
\* enabled and syncOnWrite off, every local task whose sync_status is
\* PENDING has an operation for its id in the queue.
C27_PendingHasQueuedOp ==
  Queued =>
    \A id \in DOMAIN local :
      local[id].status = "pending" => \E o \in queue : o.taskId = id

\* the rows the step adds to the queue for task id
Enqueued(id) == {o \in queue' \ queue : o.taskId = id}

\* C28: sweep, local wins. For a task in both getAll results with different
\* versions whose remote updated_at is not later than the local one, a
\* fullSync that reads the remote leaves the local row and the remote table
\* unchanged and enqueues exactly one operation for that id, an UPDATE whose
\* previousVersion is the remote row's version. A task with the same
\* version on both sides keeps its local row and gets no queue entry.
C28_SweepLocalWins ==
  [][\A id \in GetAll(local) \cap GetAll(remote) :
       FullSync(TRUE) =>
         /\ (/\ local[id].version # remote[id].version
             /\ remote[id].updated_at <= local[id].updated_at) =>
              /\ local'[id] = local[id]
              /\ remote' = remote
              /\ Cardinality(Enqueued(id)) = 1
              /\ \A o \in Enqueued(id) :
                   /\ o.type = "UPDATE"
                   /\ o.previousVersion = remote[id].version
         /\ local[id].version = remote[id].version =>
              /\ local'[id] = local[id]
              /\ remote' = remote
              /\ Enqueued(id) = {}]_vars

\* the queue holds an UPDATE the sweep enqueued (its data is the whole
\* local row, id included) whose previousVersion is the remote version,
\* for a task whose local version differs
C28_Witness ==
  \E o \in queue :
    /\ o.type = "UPDATE"
    /\ o.data.id = o.taskId
    /\ o.taskId \in DOMAIN local \cap DOMAIN remote
    /\ o.previousVersion = remote[o.taskId].version
    /\ local[o.taskId].version # remote[o.taskId].version
    /\ local[o.taskId].updated_at >= remote[o.taskId].updated_at

\* C29: sweep, local-only tasks. A fullSync that reads the remote enqueues
\* one CREATE for each active local task that is not in the remote getAll
\* result and is PENDING, enqueues nothing for a local task that is not in
\* the remote result and is in another status or not active, enqueues a
\* CREATE for no other task, and leaves every such local row as it was.
C29_SweepLocalOnly ==
  [][FullSync(TRUE) =>
       /\ \A id \in (DOMAIN local) \ GetAll(remote) :
            /\ id \in DOMAIN local'
            /\ local'[id] = local[id]
            /\ IF id \in GetAll(local) /\ local[id].status = "pending"
               THEN /\ Cardinality(Enqueued(id)) = 1
                    /\ \A o \in Enqueued(id) : o.type = "CREATE"
               ELSE Enqueued(id) = {}
       /\ \A o \in queue' \ queue :
            o.type = "CREATE" =>
              /\ o.taskId \in GetAll(local) \ GetAll(remote)
              /\ local[o.taskId].status = "pending"]_vars

\* the queue holds a CREATE the sweep enqueued (its data is the whole local
\* row, id included) for a PENDING task without a remote row, and the row
\* is as it was written
C29_Witness ==
  \E o \in queue :
    /\ o.type = "CREATE"
    /\ o.data.id = o.taskId
    /\ o.taskId \in GetAll(local) \ GetAll(remote)
    /\ local[o.taskId].status = "pending"
    /\ o.data = AsObject(o.taskId, local[o.taskId])

\* C30 as stated: sweep, remote-only tasks. After a fullSync that read the
\* remote, every active remote task that had no local row is in the local
\* table under the same id, with the remote row's name and version, and
\* the sweep enqueued no operation for it.
C30_SweepRemoteOnly ==
  [][FullSync(TRUE) =>
       \A id \in GetAll(remote) \ (DOMAIN local) :
         /\ id \in DOMAIN local'
         /\ local'[id].name = remote[id].name
         /\ local'[id].version = remote[id].version
         /\ Enqueued(id) = {}]_vars

\* the queue is empty, every local task is SYNCED and the remote table holds
\* it under the same id with the same version, name and deleted_at
Converged ==
  /\ queue = {}
  /\ \A id \in DOMAIN local :
       /\ local[id].status = "synced"
       /\ id \in DOMAIN remote
       /\ remote[id].version = local[id].version
       /\ remote[id].name = local[id].name
       /\ remote[id].deleted = local[id].deleted

\* the model has no id or clock value left for a further write
OutOfBounds == nextId > MaxIds \/ now >= MaxClock

\* C31 as stated: eventual convergence in queued mode. With sync enabled,
\* syncOnWrite off, the daemon started, drains scheduled fairly and the
\* remote reachable, the system eventually reaches a state where the queue
\* is empty, every local task is SYNCED and the remote holds each of them
\* under the same id with the same version and fields (unless the daemon
\* is stopped; runs that use up the ids or the clock of the model are left
\* out).
C31_EventualConvergence ==
  (Queued /\ isRunning) ~> (Converged \/ ~isRunning \/ OutOfBounds)

\* ---------------------------------------------------------------------
\* The handlers with a local store that can fail: the awaited local call
\* after a successful remote call throws.

\* createTask in immediate mode whose remote create succeeds and whose
\* markSynced then throws: syncCreateToRemote rejects, the catch block
\* deletes the local row and throws TransactionError
CreateTaskMarkFails(name) ==
  /\ config.enableSync /\ config.syncOnWrite
  /\ nextId + 1 <= MaxIds
  /\ now < MaxClock
  /\ LET id == nextId
         local1 == SQLiteCreate(local, id, TaskCreate(name), now)
         localTask == AsObject(id, local1[id])
     IN
     /\ remote' = SupabaseCreate(remote, StripForCreate(localTask), id + 1, now)
     /\ local' = RollbackCreate(local1, id)
     /\ nextId' = id + 2
     /\ now' = now + 1
     /\ ret' = Threw("createTask", id, "TransactionError", "StorageError")
  /\ UNCHANGED <<queue, nextOp, config, isRunning, made>>

StorageNext ==
  \/ Next
  \/ \E name \in Names : CreateTaskMarkFails(name) /\ UNCHANGED async

StorageSpec == Init /\ [][StorageNext]_vars

\* C32 as stated: a failed immediate-sync create leaves the remote store
\* unchanged as well. Whenever createTask with syncOnWrite throws, because
\* the remote create failed or because the remote create succeeded and
\* markSynced failed, the local and the remote table hold no row that was
\* not there before the call.
C32_FailedCreateLeavesNothing ==
  [][\A name \in Names :
       (Immediate /\ (CreateTask(name, FALSE) \/ CreateTaskMarkFails(name))) =>
         /\ ret'.err = "TransactionError"
         /\ DOMAIN local' \subseteq DOMAIN local
         /\ DOMAIN remote' \subseteq DOMAIN remote]_vars

\* the remote table after one more application of o, where the remote
\* accepts it
Reapplied(o) ==
  IF ExecuteOutcome(o, TRUE) = "none" THEN ExecuteRemote(o, nextId, now) ELSE remote

\* two remote tables with the same rows, time stamps aside
SameTable(a, b) ==
  /\ DOMAIN a = DOMAIN b
  /\ \A id \in DOMAIN a : View(a[id]) = View(b[id])

\* C33 as stated: duplicate application is tolerated. When a processQueue
\* run has applied its operation to the remote and a later step of the run
\* fails, so that the operation stays in the queue, applying the operation
\* again leaves the remote table with the same rows as the single
\* application did; a CREATE applied again adds no second remote row.
C33_DuplicateApplicationTolerated ==
  [][\A s \in 1..MaxDrains : \A o \in queue' :
       (/\ DrainEnds(s)
        /\ o.id = drains[s].op.id
        /\ ExecuteOutcome(drains[s].op, TRUE) = "none"
        /\ remote' = ExecuteRemote(drains[s].op, nextId, now)) =>
         SameTable((Reapplied(o))', remote')]_vars

\* ------------------------------------------------ the daemon, stopped

\* The daemon of a service in queued mode, started and stopped while its
\* runs wait for the remote; the queue is filled by createTask.
DaemonNext ==
  \/ \E name \in Names : CreateTask(name, TRUE) /\ UNCHANGED async
  \/ Start /\ UNCHANGED async
  \/ Stop /\ UNCHANGED async
  \/ \E s \in 1..MaxDrains : BeginDrain(s)
  \/ \E s \in 1..MaxDrains, netOk \in BOOLEAN, tryFails \in TryFailures,
        catchFails \in BOOLEAN : EndDrain(s, netOk, tryFails, catchFails)

DaemonInit == Init /\ Queued

\* a remote call that was sent is answered or fails in the end: the
\* promise a run waits for settles
DaemonSpec ==
  /\ DaemonInit
  /\ [][DaemonNext]_vars
  /\ \A s \in 1..MaxDrains :
       WF_vars(\E netOk \in BOOLEAN, tryFails \in TryFailures,
                  catchFails \in BOOLEAN : EndDrain(s, netOk, tryFails, catchFails))

InFlight(s) == drains[s].pc = "applying"

C35_TriggerDiscipline ==
  [][/\ \A netOk \in BOOLEAN :
          ProcessQueue(netOk) =>
            (DOMAIN local' \subseteq DOMAIN local /\ OpIds(queue') \subseteq OpIds(queue))
     /\ (config.enableSync /\ ~isRunning /\ isRunning') =>
          (local' = MergedLocal(now) /\ queue' = MergedQueue(now))]_vars

\* C36: queued update. updateTask on a stored task with sync enabled and
\* syncOnWrite false makes no remote call: the remote table is as it was.
\* The local row has the new name at version + 1 with sync_status 'pending',
\* and the queue gained exactly one operation: an UPDATE for that id with
\* the caller's changes, retry_count 0 and a previousVersion that is the
\* local version before the update.
C36_QueuedUpdate ==
  [][\A id \in DOMAIN local, name \in Names, netOk \in BOOLEAN :
       (Queued /\ UpdateTask(id, name, netOk)) =>
         /\ remote' = remote
         /\ local'[id].version = local[id].version + 1
         /\ local'[id].status = "pending"
         /\ local'[id].name = name
         /\ queue \subseteq queue'
         /\ Cardinality(queue' \ queue) = 1
         /\ \A o \in queue' \ queue :
              /\ o.type = "UPDATE" /\ o.taskId = id
              /\ o.data = Rename(name)
              /\ o.previousVersion = local[id].version
              /\ o.retryCount = 0]_vars

C36_Witness ==
  /\ Queued
  /\ ret.op = "updateTask" /\ ret.err = "none"
  /\ \E o \in queue :
       /\ o.type = "UPDATE" /\ o.taskId = ret.id /\ o.retryCount = 0
       /\ o.previousVersion + 1 = local[ret.id].version
       /\ o.previousVersion > 1
  /\ local[ret.id].status = "pending"

\* ---------------------------------------------------- ConflictResolver

\* the versions and the updated_at stamps of the two sides handed to resolve
MaxVersion == 3
MaxStamp == 3

ConflictResolution == {"local", "remote", "merge", "manual"}

\* what a call evaluates to when the function body ends without a return
Undefined == Payload(NoId, NoName, "absent", NoVersion, NoStatus, NoTime)

\* merge: its body holds two comments and no statement
Merge(l, r) == Undefined

\* resolve: what the call returns or throws
Resolve(l, r, strategy) ==
  CASE strategy = "local" -> Returned("resolve", l.id, l)
    [] strategy = "remote" -> Returned("resolve", r.id, r)
    [] strategy = "merge" -> Returned("resolve", l.id, Merge(l, r))
    [] OTHER -> Threw("resolve", l.id, "ManualConflictError", "none")

\* the two sides: versions of the same task, one from each table
ResolverInit ==
  /\ \E n \in Names, v, w \in 1..MaxVersion, t, u \in 1..MaxStamp :
       /\ local = Put(EmptyStore, 1, Task(n, FALSE, v, "pending", t))
       /\ remote = Put(EmptyStore, 1, Task(OtherName, FALSE, w, "synced", u))
  /\ queue = {}
  /\ nextId = 2
  /\ nextOp = 1
  /\ now = MaxStamp + 1
  /\ config \in Configs
  /\ isRunning = FALSE
  /\ ret = NoRet
  /\ made = EmptyStore
  /\ drains = [s \in 1..MaxDrains |-> IdleDrain]
  /\ calls = [c \in 1..MaxCalls |-> IdleCall]

ResolveCall(strategy) ==
  /\ ret' = Resolve(AsObject(1, local[1]), AsObject(1, remote[1]), strategy)
  /\ UNCHANGED <<local, remote, queue, nextId, nextOp, now, config, isRunning,
                 made, drains, calls>>

ResolverNext == \E strategy \in ConflictResolution : ResolveCall(strategy)

ResolverSpec == ResolverInit /\ [][ResolverNext]_vars

Later(a, b) == IF a >= b THEN a ELSE b

\* C37 as stated: ConflictResolver MERGE. For two versions of the same
\* task, resolve(local, remote, MERGE) returns a task whose version is
\* max(local.version, remote.version) + 1, greater than both, and whose
\* attributes are those of the side with the later updated_at.
C37_MergeTakesLaterSide ==
  [][ResolveCall("merge") =>
       /\ ret'.err = "none"
       /\ ret'.task.version = Later(local[1].version, remote[1].version) + 1
       /\ local[1].updated_at > remote[1].updated_at =>
            ret'.task.name = local[1].name
       /\ remote[1].updated_at > local[1].updated_at =>
            ret'.task.name = remote[1].name]_vars

\* C38: update of a missing task. updateTask or deleteTask on an id that has
\* no local row fails with NotFoundError and leaves the local table, the
\* remote table and the queue as they were: no remote call is made and
\* nothing is enqueued, whatever the configuration and whether or not the
\* remote holds a row under that id.
C38_MissingTask ==
  [][\A id \in CallerIds \ DOMAIN local, name \in Names, netOk \in BOOLEAN :
       (UpdateTask(id, name, netOk) \/ DeleteTask(id, netOk)) =>
         /\ ret'.err = "NotFoundError" /\ ret'.id = id
         /\ ret'.op \in {"updateTask", "deleteTask"}
         /\ local' = local
         /\ remote' = remote
         /\ queue' = queue]_vars

C38_Witness ==
  /\ ret.err = "NotFoundError" /\ ret.op = "deleteTask"
  /\ ret.id \notin DOMAIN local
  /\ ret.id \in DOMAIN remote
  /\ config.enableSync
  /\ queue # {}

====
